---------------------------- MODULE Spec2Model ----------------------------
(***************************************************************************)
(* Battery energy storage system (src/src/bess_model.py) and the hourly    *)
(* dispatch loop that drives it (src/src/run_simulation.py).               *)
(*                                                                         *)
(* Numbers.  The program computes with Python floats.  The model computes  *)
(* with exact rationals: a number is a pair <<n, d>> with d > 0 and        *)
(* gcd(n, d) = 1, so that equal numbers are equal values.  Rounding of     *)
(* binary floating point is not modelled.                                  *)
(***************************************************************************)
EXTENDS Integers, Sequences, FiniteSets, TLC

VARIABLES
    battery,        \* the BatteryEnergyStorageSystem instance (its attributes)
    last,           \* the most recent method call on the battery and its outcome
    pre,            \* the battery's attributes when that call was entered
    ncalls,         \* number of direct method calls made so far
    pc,             \* where run_simulation is: "idle" (not in use), "start" (about
                    \* to be called), "loop", "returned", "raised"
    sim             \* run_simulation's arguments, locals and result

vars == <<battery, last, pre, ncalls, pc, sim>>

\* Direct method calls made by a client of the battery, per behaviour.
MaxCalls == 2

\* Longest input series given to run_simulation.
MaxLen == 3

----------------------------------------------------------------------------
(* Exact rational arithmetic standing for Python's float operators.        *)

RECURSIVE GCD(_, _)
GCD(a, b) == IF b = 0 THEN a ELSE GCD(b, a % b)

Abs(x) == IF x < 0 THEN -x ELSE x

\* The rational n/d in lowest terms with a positive denominator (d # 0).
Rat(n, d) ==
    LET s == IF d < 0 THEN -1 ELSE 1
        g == GCD(Abs(n), Abs(d))
    IN  <<(s * n) \div g, (s * d) \div g>>

R(n) == <<n, 1>>

Zero == R(0)
One == R(1)

add(x, y) == Rat(x[1] * y[2] + y[1] * x[2], x[2] * y[2])
sub(x, y) == Rat(x[1] * y[2] - y[1] * x[2], x[2] * y[2])
mul(x, y) == Rat(x[1] * y[1], x[2] * y[2])
\* x / y for y # 0; the callers raise ZeroDivisionError before dividing by 0.
div(x, y) == Rat(x[1] * y[2], x[2] * y[1])
neg(x) == <<-x[1], x[2]>>

lt(x, y) == x[1] * y[2] < y[1] * x[2]
le(x, y) == x[1] * y[2] <= y[1] * x[2]
gt(x, y) == lt(y, x)
ge(x, y) == le(y, x)

\* Python's min(x, y): y when y < x, otherwise x.
min(x, y) == IF lt(y, x) THEN y ELSE x

----------------------------------------------------------------------------
(* BatteryEnergyStorageSystem                                              *)

\* __init__ stores its arguments unchecked and derives the stored energy.
__init__(battery_capacity, battery_power, initial_soc, charging_efficiency, discharging_efficiency, min_soc, max_soc) ==
    [ battery_capacity       |-> battery_capacity,
      battery_power          |-> battery_power,
      charging_efficiency    |-> charging_efficiency,
      discharging_efficiency |-> discharging_efficiency,
      min_soc                |-> min_soc,
      max_soc                |-> max_soc,
      existing_energy        |-> mul(initial_soc, battery_capacity),
      soc                    |-> initial_soc,
      total_charged          |-> Zero,
      total_discharged       |-> Zero,
      total_losses           |-> Zero ]

\* charge, line 74: the request limited to the power rating.
actual_charging_power(self, charging_power) == min(charging_power, self.battery_power)

\* The same with the charging loss forgotten.
apply_charging_efficiency_Skipped(self, charged_energy) == charged_energy

\* charge, line 80: the energy that reaches storage after the charging loss.
apply_charging_efficiency(self, charged_energy) == mul(self.charging_efficiency, charged_energy)

\* charge, line 83: room left below max_soc.
charging_availability(self) == sub(mul(self.max_soc, self.battery_capacity), self.existing_energy)

\* The same with the scale-back of lines 85-87 left out.
clip_charged_energy_NoClip(energy, availability) == energy

\* charge, lines 85-87: scale the energy back to the room left.
clip_charged_energy(energy, availability) == IF gt(energy, availability) THEN availability ELSE energy

\* The same, counting the energy drawn rather than the energy stored.
total_charged_after_Drawn(self, charged_energy, actual_charged_energy) == add(self.total_charged, charged_energy)

\* charge, line 94: total_charged grows by the energy stored.
total_charged_after(self, charged_energy, actual_charged_energy) == add(self.total_charged, actual_charged_energy)

\* charge, line 95: (total_losses + charged_energy) - actual_charged_energy.
charging_losses(self, charged_energy, actual_charged_energy) == sub(add(self.total_losses, charged_energy), actual_charged_energy)

\* The same, raised once the stored energy has been given up.
raise_ValueError_AfterUpdate(self) == [self |-> [self EXCEPT !.existing_energy = Zero, !.soc = Zero], raised |-> "ValueError", ret |-> <<>>]

\* charge, lines 70-71, and discharge, lines 115-116: the power is tested and
\* ValueError raised before any attribute is assigned.
raise_ValueError(self) == [self |-> self, raised |-> "ValueError", ret |-> <<>>]

\* charge(charging_power, charging_time): the attributes after the call, the
\* exception raised ("none" when it returns) and the returned tuple.
charge(self, charging_power, charging_time) ==
    IF lt(charging_power, Zero)
    THEN raise_ValueError(self)
    ELSE
      LET power == actual_charging_power(self, charging_power)
          charged_energy == mul(power, charging_time)
          actual_charged_energy ==
              clip_charged_energy(apply_charging_efficiency(self, charged_energy),
                                  charging_availability(self))
          existing_energy == add(self.existing_energy, actual_charged_energy)
      IN  IF self.battery_capacity = Zero
          \* line 91 divides by the capacity after line 90 has stored the energy
          THEN [self |-> [self EXCEPT !.existing_energy = existing_energy],
                raised |-> "ZeroDivisionError", ret |-> <<>>]
          ELSE
            LET soc == div(existing_energy, self.battery_capacity)
            IN  [self |-> [self EXCEPT
                              !.existing_energy = existing_energy,
                              !.soc = soc,
                              !.total_charged = total_charged_after(self, charged_energy, actual_charged_energy),
                              !.total_losses = charging_losses(self, charged_energy, actual_charged_energy)],
                 raised |-> "none",
                 ret |-> <<power, actual_charged_energy, existing_energy, soc>>]

\* The same with the power rating ignored.
actual_discharging_power_Unlimited(self, discharging_power) == discharging_power

\* discharge, line 119: the request limited to the power rating.
actual_discharging_power(self, discharging_power) == min(discharging_power, self.battery_power)

\* The same with the loss taken from the battery's side: the energy drawn
\* is the request and the energy counted is that over the efficiency.
apply_discharging_efficiency_Divided(self, power, discharging_time) == div(mul(power, discharging_time), self.discharging_efficiency)

\* discharge, line 122: the energy delivered after the discharging loss.
apply_discharging_efficiency(self, power, discharging_time) == mul(mul(power, discharging_time), self.discharging_efficiency)

\* discharge, line 125: energy stored above min_soc.
discharging_availability(self) == sub(self.existing_energy, mul(self.min_soc, self.battery_capacity))

\* discharge, lines 126-127: never deliver more than is stored above min_soc.
clip_discharged_energy(energy, availability) == IF gt(energy, availability) THEN availability ELSE energy

\* The same, accruing the loss on the delivered (clipped) energy.
discharging_losses_OfDelivered(self, power, discharging_time, actual_discharged_energy) == add(self.total_losses, mul(actual_discharged_energy, sub(One, self.discharging_efficiency)))

\* discharge, line 135: the loss of the unclipped power and time.
discharging_losses(self, power, discharging_time, actual_discharged_energy) == add(self.total_losses, mul(mul(power, discharging_time), sub(One, self.discharging_efficiency)))

\* discharge(discharging_power, discharging_time), as charge.
discharge(self, discharging_power, discharging_time) ==
    IF lt(discharging_power, Zero)
    THEN raise_ValueError(self)
    ELSE
      LET power == actual_discharging_power(self, discharging_power)
          actual_discharged_energy ==
              clip_discharged_energy(apply_discharging_efficiency(self, power, discharging_time),
                                     discharging_availability(self))
          existing_energy == sub(self.existing_energy, actual_discharged_energy)
      IN  IF self.battery_capacity = Zero
          \* line 131 divides by the capacity after line 130 has stored the energy
          THEN [self |-> [self EXCEPT !.existing_energy = existing_energy],
                raised |-> "ZeroDivisionError", ret |-> <<>>]
          ELSE
            LET soc == div(existing_energy, self.battery_capacity)
            IN  [self |-> [self EXCEPT
                              !.existing_energy = existing_energy,
                              !.soc = soc,
                              !.total_discharged = add(self.total_discharged, actual_discharged_energy),
                              !.total_losses = discharging_losses(self, power, discharging_time, actual_discharged_energy)],
                 raised |-> "none",
                 ret |-> <<power, actual_discharged_energy, existing_energy, soc>>]

\* The same with the values of 'soc' and 'existing energy' exchanged.
get_battery_state_Swapped(self) == <<self.existing_energy, self.soc, self.total_charged, self.total_discharged, self.total_losses>>

\* get_battery_state(): the returned dictionary, in the order of its keys.
get_battery_state(self) == <<self.soc, self.existing_energy, self.total_charged, self.total_discharged, self.total_losses>>

----------------------------------------------------------------------------
(* A client calling the battery's methods directly.                        *)

\* The bounds the specification states for a battery's constants (its
\* InvalidConfig conditions); __init__ checks none of them.
CapacityOk(b) == gt(b.battery_capacity, Zero)
PowerOk(b) == gt(b.battery_power, Zero)
ChargingEfficiencyOk(b) == gt(b.charging_efficiency, Zero) /\ le(b.charging_efficiency, One)
DischargingEfficiencyOk(b) == gt(b.discharging_efficiency, Zero) /\ le(b.discharging_efficiency, One)
SocBandOk(b) == lt(b.min_soc, b.max_soc)
ValidConfig(b) == CapacityOk(b) /\ PowerOk(b) /\ ChargingEfficiencyOk(b) /\ DischargingEfficiencyOk(b) /\ SocBandOk(b)

\* How many of those bounds b's constants break.
Faults(b) == Cardinality({i \in 1..5 : ~ <<CapacityOk(b), PowerOk(b), ChargingEfficiencyOk(b), DischargingEfficiencyOk(b), SocBandOk(b)>>[i]})

\* Constructor arguments tried: every combination of these with at most one
\* of the bounds above broken.  The initial state of charge is free.
Capacities == {R(0), R(4)}
PowerRatings == {R(0), R(2)}
InitialSocs == {R(0), <<1, 2>>, R(1)}
ChargingEfficiencies == {<<3, 4>>, R(1), <<3, 2>>}
DischargingEfficiencies == {R(0), <<3, 4>>, R(1)}
MinSocs == {R(0), <<1, 4>>}
MaxSocs == {<<1, 4>>, R(1)}

Batteries == { b \in { __init__(c[1], c[2], c[3], c[4], c[5], c[6], c[7]) : c \in Capacities \X PowerRatings \X InitialSocs \X ChargingEfficiencies \X DischargingEfficiencies \X MinSocs \X MaxSocs } : Faults(b) <= 1 }

\* Arguments tried for charge and discharge.
Powers == {R(-1), R(0), R(1), R(3)}
Times == {R(-1), R(0), R(1)}

\* np.zeros(n)
zeros(n) == [i \in 1..n |-> Zero]

\* The locals of run_simulation before it is called.  grid_connection_limit
\* is <<>> for None and <<x>> for the number x.
IdleSim ==
    [ pv_generation |-> <<>>, building_demand |-> <<>>, electricity_prices |-> <<>>,
      control_strategy |-> "simple", grid_connection_limit |-> <<>>,
      battery_at_call |-> <<>>,  \* the attributes of `battery` when the call began
      net_load |-> <<>>, hour |-> 0,
      energy_movement |-> <<>>, battery_soc |-> <<>>, battery_energy |-> <<>>,
      grid_power |-> <<>>, electricity_cost |-> <<>>,
      calls |-> <<>>,       \* per hour begun, the battery methods it invoked
      branches |-> <<>>,    \* per hour begun, the price branches it entered
      raised |-> "none",    \* the exception that ended the run
      results |-> <<>> ]    \* the returned table, one record per row

NoCall == [op |-> "__init__", power |-> Zero, time |-> Zero, raised |-> "none", ret |-> <<>>]

Init ==
    /\ battery \in Batteries
    /\ last = NoCall
    /\ pre = battery
    /\ ncalls = 0
    /\ pc = "idle"
    /\ sim = IdleSim

Charge ==
    /\ pc = "idle"
    /\ ncalls < MaxCalls
    /\ \E charging_power \in Powers, charging_time \in Times :
          LET r == charge(battery, charging_power, charging_time)
          IN  /\ battery' = r.self
              /\ last' = [op |-> "charge", power |-> charging_power, time |-> charging_time,
                          raised |-> r.raised, ret |-> r.ret]
    /\ pre' = battery
    /\ ncalls' = ncalls + 1
    /\ UNCHANGED <<pc, sim>>

Discharge ==
    /\ pc = "idle"
    /\ ncalls < MaxCalls
    /\ \E discharging_power \in Powers, discharging_time \in Times :
          LET r == discharge(battery, discharging_power, discharging_time)
          IN  /\ battery' = r.self
              /\ last' = [op |-> "discharge", power |-> discharging_power, time |-> discharging_time,
                          raised |-> r.raised, ret |-> r.ret]
    /\ pre' = battery
    /\ ncalls' = ncalls + 1
    /\ UNCHANGED <<pc, sim>>

\* The same with a query that starts a new loss account.
GetBatteryState_ResetsLosses ==
    /\ pc = "idle"
    /\ ncalls < MaxCalls
    /\ last' = [op |-> "get_battery_state", power |-> Zero, time |-> Zero,
                raised |-> "none", ret |-> get_battery_state(battery)]
    /\ pre' = battery
    /\ ncalls' = ncalls + 1
    /\ battery' = [battery EXCEPT !.total_losses = Zero]
    /\ UNCHANGED <<pc, sim>>

GetBatteryState ==
    /\ pc = "idle"
    /\ ncalls < MaxCalls
    /\ last' = [op |-> "get_battery_state", power |-> Zero, time |-> Zero,
                raised |-> "none", ret |-> get_battery_state(battery)]
    /\ pre' = battery
    /\ ncalls' = ncalls + 1
    /\ UNCHANGED <<battery, pc, sim>>

Next == Charge \/ Discharge \/ GetBatteryState

Spec == Init /\ [][Next]_vars

----------------------------------------------------------------------------
(* run_simulation                                                          *)

\* Lines 27-29 with the price series left out of the comparison.
same_length_FirstTwo(pv_generation, building_demand, electricity_prices) == Len(pv_generation) = Len(building_demand)

\* Lines 27-29: len(pv_generation) == len(building_demand) == len(electricity_prices)
same_length(pv_generation, building_demand, electricity_prices) == Len(pv_generation) = Len(building_demand) /\ Len(building_demand) = Len(electricity_prices)

\* Line 41: the element-wise difference of two series of one length.
net_load_of(pv_generation, building_demand) == [i \in 1..Len(pv_generation) |-> sub(pv_generation[i], building_demand[i])]

\* One battery method call made by the loop: what `last` and `pre` record.
call_record(op, self, power, r) == [last |-> [op |-> op, power |-> power, time |-> One, raised |-> r.raised, ret |-> r.ret], pre |-> self]

\* The outcome of an hour whose strategy branch wrote nothing to the arrays
\* (it raised, or no branch ran).  branches lists the price branches of the
\* 'price arbitrage' strategy that the hour entered.
hour_not_written(self, raised, calls) ==
    [self |-> self, raised |-> raised, wrote |-> FALSE,
     energy_movement |-> Zero, battery_energy |-> Zero, battery_soc |-> Zero, grid_power |-> Zero,
     calls |-> calls, branches |-> <<>>]

\* Lines 55-75, the body of the 'simple' strategy for one hour: the battery
\* after it, the exception raised, the values written to the hour's slots
\* of the arrays and the method calls made.
simple_hour(self, current_net_load) ==
    IF gt(current_net_load, Zero)
    THEN LET charging_power == current_net_load
             r == charge(self, charging_power, One)
         IN  IF r.raised # "none"
             THEN hour_not_written(r.self, r.raised, <<call_record("charge", self, charging_power, r)>>)
             ELSE LET actual_charged_energy == r.ret[2]
                      remaining_PV == sub(current_net_load, actual_charged_energy)
                  IN  [self |-> r.self, raised |-> "none", wrote |-> TRUE,
                       energy_movement |-> actual_charged_energy,
                       battery_energy |-> get_battery_state(r.self)[2],
                       battery_soc |-> get_battery_state(r.self)[1],
                       grid_power |-> remaining_PV,
                       calls |-> <<call_record("charge", self, charging_power, r)>>, branches |-> <<>>]
    ELSE LET discharging_power == neg(current_net_load)
             r == discharge(self, discharging_power, One)
         IN  IF r.raised # "none"
             THEN hour_not_written(r.self, r.raised, <<call_record("discharge", self, discharging_power, r)>>)
             ELSE LET actual_discharged_energy == r.ret[2]
                      remaining_dificit == add(current_net_load, actual_discharged_energy)
                  IN  [self |-> r.self, raised |-> "none", wrote |-> TRUE,
                       energy_movement |-> neg(actual_discharged_energy),
                       battery_energy |-> get_battery_state(r.self)[2],
                       battery_soc |-> get_battery_state(r.self)[1],
                       grid_power |-> remaining_dificit,
                       calls |-> <<call_record("discharge", self, discharging_power, r)>>, branches |-> <<>>]

\* a with x inserted before the first element greater than x (a sorted).
RECURSIVE insert_sorted(_, _)
insert_sorted(a, x) ==
    IF a = <<>> THEN <<x>>
    ELSE IF le(x, a[1]) THEN <<x>> \o a
    ELSE <<a[1]>> \o insert_sorted(Tail(a), x)

\* The elements of a in ascending order.
RECURSIVE sorted(_)
sorted(a) == IF a = <<>> THEN <<>> ELSE insert_sorted(sorted(Tail(a)), a[1])

\* np.percentile(a, q) for a non-empty a: linear interpolation between the
\* order statistics around position q/100 * (len(a) - 1).
percentile(a, q) ==
    LET v == sorted(a)
        position == Rat(q * (Len(a) - 1), 100)
        below == position[1] \div position[2]
        fraction == sub(position, R(below))
    IN  IF fraction = Zero
        THEN v[below + 1]
        ELSE add(v[below + 1], mul(fraction, sub(v[below + 2], v[below + 1])))

\* Lines 126-148, the medium-price body of the 'price arbitrage' strategy.
\* It differs from lines 55-75 in line 141, which passes current_net_load
\* itself (not its negation) to discharge.
medium_price_hour(self, current_net_load) ==
    IF gt(current_net_load, Zero)
    THEN simple_hour(self, current_net_load)
    ELSE LET discharging_power == current_net_load
             r == discharge(self, discharging_power, One)
         IN  IF r.raised # "none"
             THEN hour_not_written(r.self, r.raised, <<call_record("discharge", self, discharging_power, r)>>)
             ELSE LET actual_discharged_energy == r.ret[2]
                      remaining_dificit == add(current_net_load, actual_discharged_energy)
                  IN  [self |-> r.self, raised |-> "none", wrote |-> TRUE,
                       energy_movement |-> neg(actual_discharged_energy),
                       battery_energy |-> get_battery_state(r.self)[2],
                       battery_soc |-> get_battery_state(r.self)[1],
                       grid_power |-> remaining_dificit,
                       calls |-> <<call_record("discharge", self, discharging_power, r)>>, branches |-> <<>>]

\* The hour h, entered through the price branch named.
entered(branch, h) == [h EXCEPT !.branches = <<branch>> \o @]

\* Two parts of one pass of the loop body in sequence: h2 ran on the battery
\* h1 left and its writes to the hour's slots overwrite those of h1.
then(h1, h2) ==
    [self |-> h2.self, raised |-> h2.raised, wrote |-> h1.wrote \/ h2.wrote,
     energy_movement |-> IF h2.wrote THEN h2.energy_movement ELSE h1.energy_movement,
     battery_energy |-> IF h2.wrote THEN h2.battery_energy ELSE h1.battery_energy,
     battery_soc |-> IF h2.wrote THEN h2.battery_soc ELSE h1.battery_soc,
     grid_power |-> IF h2.wrote THEN h2.grid_power ELSE h1.grid_power,
     calls |-> h1.calls \o h2.calls, branches |-> h1.branches \o h2.branches]

\* Line 96 as if line 95 had taken element [1] of the tuple, as line 58 does.
store_tuple_in_float_array_Indexed(ret) == [raised |-> "none", value |-> ret[2]]

\* Line 96, energy_movement[hour] = actual_charged_energy, where line 95 kept
\* the whole 4-tuple charge returned: numpy refuses to set an element of a
\* float array with a sequence (ValueError).
store_tuple_in_float_array(ret) == [raised |-> "ValueError", value |-> Zero]

\* Lines 82-101, the low-price body of the 'price arbitrage' strategy.
low_price_hour(self, current_net_load) ==
    LET charging_power == IF gt(current_net_load, Zero) THEN current_net_load ELSE self.battery_power
        r == charge(self, charging_power, One)
        calls == <<call_record("charge", self, charging_power, r)>>
    IN  IF r.raised # "none"
        THEN hour_not_written(r.self, r.raised, calls)
        ELSE LET stored == store_tuple_in_float_array(r.ret)
             IN  IF stored.raised # "none"
                 THEN hour_not_written(r.self, stored.raised, calls)
                 ELSE [self |-> r.self, raised |-> "none", wrote |-> TRUE,
                       energy_movement |-> stored.value,
                       battery_energy |-> get_battery_state(r.self)[2],
                       battery_soc |-> get_battery_state(r.self)[1],
                       grid_power |-> sub(current_net_load, stored.value),
                       calls |-> calls, branches |-> <<>>]

\* Lines 104-124, the high-price body of the 'price arbitrage' strategy.
\* With no deficit and soc > 0.1, line 114 reads battery.batter_power, an
\* attribute that does not exist (AttributeError); otherwise discharge
\* returns its 4-tuple, which line 118 keeps whole, and negating it (line
\* 119) raises TypeError, after the battery has been discharged.
high_price_hour(self, current_net_load) ==
    IF ~ lt(current_net_load, Zero) /\ gt(self.soc, <<1, 10>>)
    THEN hour_not_written(self, "AttributeError", <<>>)
    ELSE LET discharging_power == IF lt(current_net_load, Zero) THEN neg(current_net_load) ELSE Zero
             r == discharge(self, discharging_power, One)
         IN  hour_not_written(r.self, IF r.raised # "none" THEN r.raised ELSE "TypeError",
                              <<call_record("discharge", self, discharging_power, r)>>)

\* Lines 76-148, the body of the 'price arbitrage' strategy for one hour:
\* `if` low price (82-101), then a second `if` high price (103-124) whose
\* `else` is the medium-price body (126-148).  The second `if` is not an
\* `elif`: an hour that left the low-price body would go on into it.
arbitrage_hour(self, current_net_load, current_price, electricity_prices) ==
    LET price_threshold_low == percentile(electricity_prices, 25)
        price_threshold_high == percentile(electricity_prices, 75)
        low == IF le(current_price, price_threshold_low)
               THEN entered("low", low_price_hour(self, current_net_load))
               ELSE hour_not_written(self, "none", <<>>)
    IN  IF low.raised # "none"
        THEN low
        ELSE then(low, IF gt(current_price, price_threshold_high)
                       THEN entered("high", high_price_hour(low.self, current_net_load))
                       ELSE entered("medium", medium_price_hour(low.self, current_net_load)))

\* Lines 32-37 and 161-165: row i of the table, the inputs and the arrays
\* at position i.
result_row(s, i) ==
    [ timestamp |-> i,
      pv_generation |-> s.pv_generation[i],
      building_demand |-> s.building_demand[i],
      electricity_prices |-> s.electricity_prices[i],
      energy_movement |-> s.energy_movement[i],
      battery_soc |-> s.battery_soc[i],
      battery_energy |-> s.battery_energy[i],
      grid_power |-> s.grid_power[i],
      electricity_cost |-> s.electricity_cost[i] ]

\* The table without the row of the last hour.
results_table_DropsLast(s) == [i \in 1..(Len(s.pv_generation) - 1) |-> result_row(s, i)]

\* Lines 160-167: the table returned, one row per input position.
results_table(s) == [i \in 1..Len(s.pv_generation) |-> result_row(s, i)]

\* Input series tried.  Series of one length n <= MaxLen take every value
\* below at every hour.  Series of unequal lengths take every combination
\* of lengths <= MaxLen, filled with one value: line 28 reads nothing but
\* the lengths before it raises.
PvValues == {R(0), R(1), R(4)}
DemandValues == {R(1)}
PriceValues == {R(1), R(3)}
\* The two strategies the code compares with (lines 54, 76), and
\* 'price_arbitrage' as the docstring (line 22) spells the second.
Strategies == {"simple", "price arbitrage", "price_arbitrage"}
GridConnectionLimits == {<<>>, <<R(1)>>}

Lengths == 0..MaxLen
constant_series(n, x) == [i \in 1..n |-> x]
SeriesArguments ==
    UNION { IF n[1] = n[2] /\ n[2] = n[3]
            THEN [1..n[1] -> PvValues] \X [1..n[2] -> DemandValues] \X [1..n[3] -> PriceValues]
            ELSE {<<constant_series(n[1], R(0)), constant_series(n[2], R(1)), constant_series(n[3], R(1))>>}
          : n \in Lengths \X Lengths \X Lengths }

\* Batteries handed to run_simulation: those with constants within bounds,
\* in band or not.
SimBatteries == {b \in Batteries : ValidConfig(b)}

SimInit ==
    /\ battery \in SimBatteries
    /\ last = NoCall
    /\ pre = battery
    /\ ncalls = 0
    /\ pc = "start"
    /\ sim = IdleSim

\* Lines 27-46, the call up to the loop: where it goes and its locals.
before_loop(battery_at_call, pv_generation, building_demand, electricity_prices, control_strategy, grid_connection_limit) ==
    LET args == [IdleSim EXCEPT !.pv_generation = pv_generation,
                                !.building_demand = building_demand,
                                !.electricity_prices = electricity_prices,
                                !.control_strategy = control_strategy,
                                !.grid_connection_limit = grid_connection_limit,
                                !.battery_at_call = battery_at_call]
        n == Len(pv_generation)
    IN  IF ~ same_length(pv_generation, building_demand, electricity_prices)
        THEN [pc |-> "raised", sim |-> [args EXCEPT !.raised = "ValueError"]]
        ELSE [pc |-> "loop",
              sim |-> [args EXCEPT !.net_load = net_load_of(pv_generation, building_demand),
                                   !.energy_movement = zeros(n),
                                   !.battery_soc = zeros(n),
                                   !.battery_energy = zeros(n),
                                   !.grid_power = zeros(n),
                                   !.electricity_cost = zeros(n)]]

\* The call of run_simulation up to the loop (lines 27-46).
RunSimulation ==
    /\ pc = "start"
    /\ \E a \in SeriesArguments, control_strategy \in Strategies,
          grid_connection_limit \in GridConnectionLimits :
          \E e \in {before_loop(battery, a[1], a[2], a[3], control_strategy, grid_connection_limit)} :
              pc' = e.pc /\ sim' = e.sim
    /\ UNCHANGED <<battery, last, pre, ncalls>>

\* Lines 150-152 limiting the hour's grid_power to the connection limit.
apply_grid_connection_limit_Clipped(grid_connection_limit, grid_power) == IF grid_connection_limit # <<>> /\ gt(grid_power, grid_connection_limit[1]) THEN grid_connection_limit[1] ELSE grid_power

\* Lines 150-152: `if grid_connection_limit is not None: pass`.
apply_grid_connection_limit(grid_connection_limit, grid_power) == IF grid_connection_limit # <<>> THEN grid_power ELSE grid_power

\* Lines 150-158 after the strategy branch gave h in the pass for hour
\* s.hour + 1 (counting from 1): where the call goes and its locals.  A
\* branch that raised leaves the loop before line 150.
after_hour(s, h) ==
    LET i == s.hour + 1
        current_price == s.electricity_prices[i]
        grid_power == apply_grid_connection_limit(s.grid_connection_limit,
                                                  IF h.wrote THEN h.grid_power ELSE s.grid_power[i])
        calls == Append(s.calls, [c \in 1..Len(h.calls) |-> h.calls[c].last.op])
        branches == Append(s.branches, h.branches)
    IN  IF h.raised # "none"
        THEN [pc |-> "raised", sim |-> [s EXCEPT !.raised = h.raised, !.calls = calls, !.branches = branches]]
        ELSE [pc |-> "loop",
              sim |-> [s EXCEPT
                          !.hour = i,
                          !.energy_movement = IF h.wrote THEN [@ EXCEPT ![i] = h.energy_movement] ELSE @,
                          !.battery_energy = IF h.wrote THEN [@ EXCEPT ![i] = h.battery_energy] ELSE @,
                          !.battery_soc = IF h.wrote THEN [@ EXCEPT ![i] = h.battery_soc] ELSE @,
                          !.grid_power = [@ EXCEPT ![i] = grid_power],
                          !.electricity_cost = [@ EXCEPT ![i] = mul(grid_power, current_price)],
                          !.calls = calls,
                          !.branches = branches]]

\* The state after one pass of the loop body whose strategy branch gave h.
EndHour(h) ==
    /\ battery' = h.self
    /\ IF h.calls = <<>>
       THEN UNCHANGED <<last, pre>>
       ELSE last' = h.calls[Len(h.calls)].last /\ pre' = h.calls[Len(h.calls)].pre
    /\ \E e \in {after_hour(sim, h)} : pc' = e.pc /\ sim' = e.sim
    /\ UNCHANGED ncalls

\* One pass of the loop under control_strategy == 'simple' (lines 49-75, 150-158).
SimpleHour ==
    /\ pc = "loop"
    /\ sim.hour < Len(sim.net_load)
    /\ sim.control_strategy = "simple"
    /\ \E h \in {simple_hour(battery, sim.net_load[sim.hour + 1])} : EndHour(h)

\* One pass of the loop under control_strategy == 'price arbitrage'
\* (lines 49-53, 76-148, 150-158).
ArbitrageHour ==
    /\ pc = "loop"
    /\ sim.hour < Len(sim.net_load)
    /\ sim.control_strategy = "price arbitrage"
    /\ \E h \in {arbitrage_hour(battery, sim.net_load[sim.hour + 1], sim.electricity_prices[sim.hour + 1], sim.electricity_prices)} : EndHour(h)

\* One pass of the loop under a control_strategy that neither comparison of
\* lines 54 and 76 matches: no branch runs, the arrays keep their zeros.
UnmatchedStrategyHour ==
    /\ pc = "loop"
    /\ sim.hour < Len(sim.net_load)
    /\ sim.control_strategy \notin {"simple", "price arbitrage"}
    /\ \E h \in {hour_not_written(battery, "none", <<>>)} : EndHour(h)

\* The loop has run out: lines 160-167.
Return ==
    /\ pc = "loop"
    /\ sim.hour = Len(sim.net_load)
    /\ pc' = "returned"
    /\ sim' = [sim EXCEPT !.results = results_table(sim)]
    /\ UNCHANGED <<battery, last, pre, ncalls>>

SimNext == RunSimulation \/ SimpleHour \/ ArbitrageHour \/ UnmatchedStrategyHour \/ Return

SimSpec == SimInit /\ [][SimNext]_vars

\* Lines 54 and 76: the strategy branch taken in the pass for hour
\* s.hour + 1, on the battery self.
strategy_hour(self, s) ==
    IF s.control_strategy = "simple"
    THEN simple_hour(self, s.net_load[s.hour + 1])
    ELSE IF s.control_strategy = "price arbitrage"
    THEN arbitrage_hour(self, s.net_load[s.hour + 1], s.electricity_prices[s.hour + 1], s.electricity_prices)
    ELSE hour_not_written(self, "none", <<>>)

\* Lines 49-167, the loop from the locals s and the battery self to the end
\* of the call: how it ends, the battery it leaves and its locals.
RECURSIVE run_loop(_, _)
run_loop(self, s) ==
    IF s.hour = Len(s.net_load)
    THEN [pc |-> "returned", battery |-> self, sim |-> [s EXCEPT !.results = results_table(s)]]
    ELSE LET h == strategy_hour(self, s)
             e == after_hour(s, h)
         IN  IF e.pc = "raised"
             THEN [pc |-> "raised", battery |-> h.self, sim |-> e.sim]
             ELSE run_loop(h.self, e.sim)

\* A whole call of run_simulation, as a function of its arguments.
run_simulation(self, pv_generation, building_demand, electricity_prices, control_strategy, grid_connection_limit) ==
    LET e == before_loop(self, pv_generation, building_demand, electricity_prices, control_strategy, grid_connection_limit)
    IN  IF e.pc = "raised"
        THEN [pc |-> "raised", battery |-> self, sim |-> e.sim]
        ELSE run_loop(self, e.sim)

\* The call of run_simulation is under way: it has neither returned nor raised.
Running == pc \in {"start", "loop"}

\* The same, with an interpreter that does not stop in the middle of the
\* call: a call under way goes on to its next statement.  This is weak
\* fairness of the steps of SimNext with "a step can be taken" written as
\* Running.
SimLiveSpec == SimInit /\ [][SimNext]_vars /\ ([]<>(~ Running) \/ []<><<Running>>_vars)

----------------------------------------------------------------------------
(* Properties of the battery's methods.  They speak of the latest call:    *)
(* pre is the battery when the call was entered, battery the battery when  *)
(* it ended, last the arguments, the exception and the returned tuple.     *)
(* "A battery" is one whose constants satisfy ValidConfig, the bounds the  *)
(* specification gives them; the stored energy is constrained only where a *)
(* property says so.                                                       *)

InBand(b) ==
    /\ le(mul(b.min_soc, b.battery_capacity), b.existing_energy)
    /\ le(b.existing_energy, mul(b.max_soc, b.battery_capacity))

IsCall == last.op \in {"charge", "discharge"}
Returned(op) == last.op = op /\ last.raised = "none"
NonNegativeArgs == ge(last.power, Zero) /\ ge(last.time, Zero)
applied_power == last.ret[1]
applied_energy == last.ret[2]

\* requested_power * duration * efficiency, for the request as made
NominalCharge == mul(mul(last.power, last.time), pre.charging_efficiency)
NominalDischarge == mul(mul(last.power, last.time), pre.discharging_efficiency)
\* the same for the request limited to the power rating
LimitedCharge == mul(mul(min(last.power, pre.battery_power), last.time), pre.charging_efficiency)
LimitedDischarge == mul(mul(min(last.power, pre.battery_power), last.time), pre.discharging_efficiency)

\* C1: from a battery whose stored energy is within
\* [min_soc*capacity, max_soc*capacity], a charge or discharge call with
\* non-negative power and duration leaves the stored energy within that band
\* (by induction: after every call of any sequence of such calls).
C1_SocWithinBand ==
    (IsCall /\ ValidConfig(pre) /\ InBand(pre) /\ NonNegativeArgs) => InBand(battery)

\* C1 witness: a charge that was scaled back and left the battery exactly full.
C1_Witness ==
    /\ Returned("charge") /\ ValidConfig(pre) /\ InBand(pre) /\ NonNegativeArgs
    /\ gt(LimitedCharge, charging_availability(pre))
    /\ lt(pre.existing_energy, battery.existing_energy)
    /\ battery.existing_energy = mul(battery.max_soc, battery.battery_capacity)

\* C2: every charge or discharge call with a negative power or a negative
\* duration fails with the invalid-input error (ValueError).
C2_NegativeArgsRaise ==
    (IsCall /\ ValidConfig(pre) /\ (lt(last.power, Zero) \/ lt(last.time, Zero)))
        => last.raised = "ValueError"

\* C3: construction is refused for constants outside their bounds, so every
\* battery that exists has constants within them.
C3_InvalidConfigRefused == ValidConfig(battery)

\* C4 as claimed: applied_energy <= requested_power*duration*charging_efficiency,
\* with equality whenever that energy fits the headroom.
C4_ChargeEqualsRequestUnlessHeadroom ==
    (Returned("charge") /\ ValidConfig(pre) /\ InBand(pre) /\ NonNegativeArgs) =>
        /\ le(applied_energy, NominalCharge)
        /\ le(NominalCharge, charging_availability(pre)) => applied_energy = NominalCharge

\* C4 amended: applied_energy <= requested_power*duration*charging_efficiency,
\* and applied_energy = min(requested_power, power rating)*duration*
\* charging_efficiency in every call not scaled back to the headroom.
C4_ChargeConservation ==
    (Returned("charge") /\ ValidConfig(pre) /\ InBand(pre) /\ NonNegativeArgs) =>
        /\ le(applied_energy, NominalCharge)
        /\ ~ gt(LimitedCharge, charging_availability(pre)) => applied_energy = LimitedCharge

\* C4 witness: a lossy charge of a request above the power rating that fits
\* the headroom: less than the request's energy is stored.
C4_Witness ==
    /\ Returned("charge") /\ ValidConfig(pre) /\ InBand(pre) /\ NonNegativeArgs
    /\ gt(last.power, pre.battery_power)
    /\ lt(pre.charging_efficiency, One)
    /\ ~ gt(LimitedCharge, charging_availability(pre))
    /\ gt(applied_energy, Zero) /\ lt(applied_energy, NominalCharge)

\* C5 as claimed: applied_energy <= requested_power*duration*
\* discharging_efficiency, with equality whenever that energy is available.
C5_DischargeEqualsRequestUnlessAvailability ==
    (Returned("discharge") /\ ValidConfig(pre) /\ InBand(pre) /\ NonNegativeArgs) =>
        /\ le(applied_energy, NominalDischarge)
        /\ le(NominalDischarge, discharging_availability(pre)) => applied_energy = NominalDischarge

\* C5 amended: applied_energy <= requested_power*duration*
\* discharging_efficiency, and applied_energy = min(requested_power, power
\* rating)*duration*discharging_efficiency in every call not limited to the
\* energy available above min_soc.
C5_DischargeConservation ==
    (Returned("discharge") /\ ValidConfig(pre) /\ InBand(pre) /\ NonNegativeArgs) =>
        /\ le(applied_energy, NominalDischarge)
        /\ ~ gt(LimitedDischarge, discharging_availability(pre)) => applied_energy = LimitedDischarge

\* C5 witness: a lossy discharge of a request above the power rating that the
\* stored energy covers.
C5_Witness ==
    /\ Returned("discharge") /\ ValidConfig(pre) /\ InBand(pre) /\ NonNegativeArgs
    /\ gt(last.power, pre.battery_power)
    /\ lt(pre.discharging_efficiency, One)
    /\ ~ gt(LimitedDischarge, discharging_availability(pre))
    /\ gt(applied_energy, Zero) /\ lt(applied_energy, NominalDischarge)

\* C6: no call lowers total_charged, total_discharged or total_losses.
C6_CountersNonDecreasing ==
    ValidConfig(pre) =>
        /\ le(pre.total_charged, battery.total_charged)
        /\ le(pre.total_discharged, battery.total_discharged)
        /\ le(pre.total_losses, battery.total_losses)

\* C7: a charge or discharge call with zero power or zero duration (and no
\* negative argument) returns, returns zero applied energy and leaves the
\* stored energy, the soc and the three counters as they were.
C7_ZeroRequestIsNoOp ==
    (IsCall /\ ValidConfig(pre) /\ NonNegativeArgs /\ (last.power = Zero \/ last.time = Zero)) =>
        /\ last.raised = "none"
        /\ applied_energy = Zero
        /\ battery = pre

\* C8: a charge adds applied_power*duration - applied_energy to total_losses;
\* a discharge adds applied_power*duration*(1 - discharging_efficiency),
\* scaled back or not.
C8_LossesExact ==
    /\ Returned("charge") =>
           battery.total_losses = add(pre.total_losses, sub(mul(applied_power, last.time), applied_energy))
    /\ Returned("discharge") =>
           battery.total_losses = add(pre.total_losses, mul(mul(applied_power, last.time), sub(One, pre.discharging_efficiency)))

\* C8 witness: a lossy discharge limited to the energy available, whose loss
\* is that of the full applied power.
C8_Witness ==
    /\ Returned("discharge") /\ ValidConfig(pre) /\ InBand(pre) /\ NonNegativeArgs
    /\ lt(pre.discharging_efficiency, One)
    /\ gt(LimitedDischarge, discharging_availability(pre))
    /\ gt(applied_energy, Zero)
    /\ gt(battery.total_losses, pre.total_losses)

----------------------------------------------------------------------------
(* Properties of run_simulation, under SimSpec.                            *)

LengthsDiffer ==
    \/ Len(sim.pv_generation) # Len(sim.building_demand)
    \/ Len(sim.pv_generation) # Len(sim.electricity_prices)
    \/ Len(sim.building_demand) # Len(sim.electricity_prices)

\* C9: when the three series do not all have one length, run_simulation
\* raises (ValueError) before the loop: no hour is begun, no battery method
\* is called, the battery is as constructed and no table is returned.
C9_LengthMismatchRaisesBeforeLoop ==
    LengthsDiffer =>
        /\ pc = "raised" /\ sim.raised = "ValueError"
        /\ sim.hour = 0 /\ sim.calls = <<>>
        /\ last = NoCall /\ battery = pre /\ battery \in SimBatteries
        /\ sim.results = <<>>

\* C9 witness: a refused run whose PV and demand series agree in length and
\* whose price series alone is shorter or longer.
C9_Witness ==
    /\ pc = "raised" /\ sim.raised = "ValueError"
    /\ Len(sim.pv_generation) = Len(sim.building_demand)
    /\ Len(sim.pv_generation) > 0
    /\ Len(sim.electricity_prices) # Len(sim.pv_generation)

\* C10: in a baseline run, for the hour just processed, net_load equals the
\* battery's energy movement before efficiency (when charging, the energy
\* taken from the surplus to store applied_energy, applied_energy /
\* charging_efficiency; when discharging, minus the energy delivered) plus
\* grid_power.  Stated for a battery with valid constants that entered the
\* hour in band.
C10_NetLoadReconciles ==
    (pc = "loop" /\ sim.control_strategy = "simple" /\ sim.hour >= 1 /\ ValidConfig(pre) /\ InBand(pre)) =>
        LET i == sim.hour
            movement_pre_efficiency ==
                IF last.op = "charge"
                THEN div(applied_energy, pre.charging_efficiency)
                ELSE neg(applied_energy)
        IN  sim.net_load[i] = add(movement_pre_efficiency, sim.grid_power[i])

\* A baseline hour has just been processed by a battery with valid constants
\* that entered it in band.
BaselineHourDone ==
    pc = "loop" /\ sim.control_strategy = "simple" /\ sim.hour >= 1 /\ ValidConfig(pre) /\ InBand(pre)

\* The deficit the battery left unmet, and the surplus it left unabsorbed, in
\* the hour just processed (both >= 0, computed from the call's return).
unmet_deficit == IF last.op = "discharge" THEN neg(add(sim.net_load[sim.hour], applied_energy)) ELSE Zero
unabsorbed_surplus == IF last.op = "charge" THEN sub(sim.net_load[sim.hour], applied_energy) ELSE Zero

\* C11: in every recorded hour of a baseline run, grid_power is positive when
\* energy is imported (unmet deficit) and negative when it is exported
\* (unabsorbed surplus); electricity_cost is then >= 0 in import hours and
\* <= 0 in export hours (prices are non-negative).
C11_ImportPositiveExportNegative ==
    BaselineHourDone =>
        /\ gt(unmet_deficit, Zero) =>
              gt(sim.grid_power[sim.hour], Zero) /\ ge(sim.electricity_cost[sim.hour], Zero)
        /\ gt(unabsorbed_surplus, Zero) =>
              lt(sim.grid_power[sim.hour], Zero) /\ le(sim.electricity_cost[sim.hour], Zero)

\* C12: in every hour begun, under either strategy, at most one battery
\* operation is invoked, a charge or a discharge; under 'price arbitrage' an
\* hour enters exactly one of the low-, high- and medium-price branches.
C12_OneOperationPerHour ==
    \A h \in 1..Len(sim.calls) :
        /\ Len(sim.calls[h]) <= 1
        /\ \A c \in 1..Len(sim.calls[h]) : sim.calls[h][c] \in {"charge", "discharge"}
        /\ Len(sim.branches[h]) <= 1
        /\ sim.control_strategy = "price arbitrage" =>
              Len(sim.branches[h]) = 1 /\ sim.branches[h][1] \in {"low", "high", "medium"}

\* C12 witness: a 'price arbitrage' run whose first hour went through the
\* medium-price branch and charged, and whose second hour entered the
\* low-price branch, where it charged once and was ended by line 96.
C12_Witness ==
    /\ sim.control_strategy = "price arbitrage" /\ pc = "raised"
    /\ Len(sim.calls) = 2
    /\ sim.branches[1] = <<"medium">> /\ sim.calls[1] = <<"charge">>
    /\ sim.branches[2] = <<"low">> /\ sim.calls[2] = <<"charge">>
    /\ sim.raised = "ValueError"

\* The hour the loop began last (its pass has ended, by completing or by
\* raising), under the strategy named.
LatestHour == Len(sim.calls)
HourBegun(control_strategy) ==
    pc \in {"loop", "raised"} /\ sim.control_strategy = control_strategy /\ LatestHour >= 1

\* Lines 79-80, 82 and 103 for hour h of the run.
LowPrice(h) == le(sim.electricity_prices[h], percentile(sim.electricity_prices, 25))
HighPrice(h) == gt(sim.electricity_prices[h], percentile(sim.electricity_prices, 75))

\* C13: under 'price arbitrage', an hour whose price is above the low
\* threshold and not above the high one does what the baseline strategy does
\* for that hour from the same battery: the same battery command, the same
\* outcome, the same battery afterwards and the same energy_movement and
\* grid_power, in surplus and in deficit hours alike.
C13_MediumPriceIsBaseline ==
    (HourBegun("price arbitrage") /\ ~ LowPrice(LatestHour) /\ ~ HighPrice(LatestHour) /\ sim.calls[LatestHour] # <<>>) =>
        LET baseline == simple_hour(pre, sim.net_load[LatestHour])
        IN  /\ last.op = baseline.calls[1].last.op
            /\ last.power = baseline.calls[1].last.power
            /\ last.raised = baseline.raised
            /\ battery = baseline.self
            /\ baseline.raised = "none" =>
                  /\ pc = "loop"
                  /\ sim.energy_movement[LatestHour] = baseline.energy_movement
                  /\ sim.grid_power[LatestHour] = baseline.grid_power

\* A baseline run is about to begin its first hour with a battery in band.
BaselineLoopEntered == pc = "loop" /\ sim.control_strategy = "simple" /\ sim.hour = 0 /\ InBand(battery)

\* A baseline run has returned and the battery is in band.
BaselineReturned == pc = "returned" /\ sim.control_strategy = "simple" /\ InBand(battery)

\* The table returned has one row per input position, in input order, each
\* carrying the inputs of its position, and every hour was begun once.
OneRowPerHour ==
    /\ sim.hour = Len(sim.pv_generation) /\ Len(sim.calls) = Len(sim.pv_generation)
    /\ Len(sim.results) = Len(sim.pv_generation)
    /\ \A i \in 1..Len(sim.results) :
          /\ sim.results[i].timestamp = i
          /\ sim.results[i].pv_generation = sim.pv_generation[i]
          /\ sim.results[i].building_demand = sim.building_demand[i]
          /\ sim.results[i].electricity_prices = sim.electricity_prices[i]

\* No baseline run is ended by an exception once its lengths have passed.
BaselineNeverRaisesInLoop == sim.control_strategy = "simple" => (pc # "raised" \/ LengthsDiffer)

\* C14: a baseline run on series of one length N, with a battery that is in
\* band, processes hours 1..N one after the other, each once, then returns;
\* the table it returns has N rows, row i carrying timestamp i and the
\* pv_generation, building_demand and price given for i.
C14_BaselineReturnsOneRowPerHour ==
    /\ [][sim'.hour \in {sim.hour, sim.hour + 1}]_vars
    /\ [](pc = "loop" => sim.hour <= Len(sim.net_load))
    /\ []BaselineNeverRaisesInLoop
    /\ [](BaselineReturned => OneRowPerHour)
    /\ BaselineLoopEntered ~> (pc = "returned")

\* C14 witness: a returned baseline run of at least two hours with different
\* PV generation, from a battery in band.
C14_Witness ==
    /\ pc = "returned" /\ sim.control_strategy = "simple" /\ InBand(battery)
    /\ Len(sim.results) >= 2
    /\ sim.results[1].pv_generation # sim.results[2].pv_generation
    /\ sim.results[2].timestamp = 2

\* The call made, repeated with grid_connection_limit = None: the same
\* battery as it was at the call, the same series and the same strategy.
run_without_limit ==
    run_simulation(sim.battery_at_call, sim.pv_generation, sim.building_demand, sim.electricity_prices,
                   sim.control_strategy, <<>>)

C16_DocstringNameSelectsArbitrage ==
    HourBegun("price_arbitrage") =>
        /\ Len(sim.branches[LatestHour]) = 1
        /\ LatestHour = 1 =>
              LET price_aware == arbitrage_hour(sim.battery_at_call, sim.net_load[1], sim.electricity_prices[1], sim.electricity_prices)
              IN  /\ battery = price_aware.self
                  /\ Len(sim.calls[1]) = Len(price_aware.calls)

\* C17: under 'price arbitrage', an hour whose price is above the high
\* threshold calls discharge once: with -net_load when there is a deficit,
\* otherwise with the rated power when the soc is above min_soc and with zero
\* when it is not; the hour completes without an exception and records
\* energy_movement = -applied_energy and grid_power = net_load + applied_energy.
C17_HighPriceDischarges ==
    (HourBegun("price arbitrage") /\ HighPrice(LatestHour)) =>
        /\ sim.calls[LatestHour] = <<"discharge">>
        /\ last.power = IF lt(sim.net_load[LatestHour], Zero) THEN neg(sim.net_load[LatestHour])
                        ELSE IF gt(pre.soc, pre.min_soc) THEN pre.battery_power
                        ELSE Zero
        /\ pc = "loop" /\ sim.hour = LatestHour
        /\ sim.energy_movement[LatestHour] = neg(applied_energy)
        /\ sim.grid_power[LatestHour] = add(sim.net_load[LatestHour], applied_energy)

\* battery_energy[h - 1], with the stored energy at the call for h = 1.
battery_energy_before(h) == IF h = 1 THEN sim.battery_at_call.existing_energy ELSE sim.battery_energy[h - 1]

\* C18: in a baseline run, for every hour h processed,
\* battery_energy[h] = battery_energy[h-1] + energy_movement[h] and
\* battery_soc[h] = battery_energy[h] / capacity; the latest row holds the
\* battery's present state.
C18_RowsChainBatteryState ==
    (pc \in {"loop", "returned"} /\ sim.control_strategy = "simple") =>
        /\ \A h \in 1..sim.hour :
              /\ sim.battery_energy[h] = add(battery_energy_before(h), sim.energy_movement[h])
              /\ sim.battery_soc[h] = div(sim.battery_energy[h], battery.battery_capacity)
        /\ sim.hour >= 1 =>
              /\ sim.battery_energy[sim.hour] = battery.existing_energy
              /\ sim.battery_soc[sim.hour] = battery.soc

\* C18 witness: a baseline run that charged in its first hour and discharged
\* part of it in its second.
C18_Witness ==
    /\ pc = "loop" /\ sim.control_strategy = "simple" /\ sim.hour = 2
    /\ gt(sim.energy_movement[1], Zero) /\ lt(sim.energy_movement[2], Zero)
    /\ gt(sim.battery_energy[2], Zero) /\ lt(sim.battery_energy[2], sim.battery_energy[1])

----------------------------------------------------------------------------
(* Frame and failure properties of the battery's methods, under Spec.      *)

\* The constant parameters of a battery.
constants_of(b) == <<b.battery_capacity, b.battery_power, b.charging_efficiency, b.discharging_efficiency, b.min_soc, b.max_soc>>

\* C19: no call, returning or raising, alters battery_capacity,
\* battery_power, the two efficiencies, min_soc or max_soc (so after any
\* sequence of calls they are as constructed); get_battery_state alters
\* nothing at all and returns the present state.
C19_ConstantsAndQueryFrame ==
    /\ constants_of(battery) = constants_of(pre)
    /\ last.op = "get_battery_state" =>
          /\ battery = pre
          /\ last.ret = <<pre.soc, pre.existing_energy, pre.total_charged, pre.total_discharged, pre.total_losses>>

\* C19 witness: a query made after a lossy charge that stored energy: there
\* are non-zero counters for it to preserve.
C19_Witness ==
    /\ last.op = "get_battery_state" /\ ncalls = 2
    /\ gt(pre.total_charged, Zero) /\ gt(pre.total_losses, Zero)
    /\ battery.total_losses = pre.total_losses

\* C20: a charge or discharge call with a negative power fails (ValueError)
\* and leaves the battery as it was: stored energy, soc and the three
\* counters (and every other attribute) unchanged, and nothing returned.
C20_FailedCallChangesNothing ==
    (IsCall /\ lt(last.power, Zero)) =>
        /\ last.raised = "ValueError"
        /\ last.ret = <<>>
        /\ battery = pre

\* C20 witness: a call refused for its negative power on a battery that an
\* earlier call had charged.
C20_Witness ==
    /\ IsCall /\ lt(last.power, Zero) /\ last.raised = "ValueError" /\ ncalls = 2
    /\ gt(pre.total_charged, Zero) /\ gt(pre.existing_energy, Zero)
    /\ battery.existing_energy = pre.existing_energy

\* Stored energy less what was ever charged plus what was ever discharged:
\* the stored energy at construction, where both counters are zero.
energy_at_construction(b) == add(sub(b.existing_energy, b.total_charged), b.total_discharged)

C22_NoGridCharging ==
    BaselineHourDone =>
        LET current_net_load == sim.net_load[sim.hour]
            grid == sim.grid_power[sim.hour]
        IN  /\ gt(current_net_load, Zero) =>
                  /\ last.op = "charge"
                  /\ ge(sim.energy_movement[sim.hour], Zero)
                  /\ ge(grid, Zero) /\ le(grid, current_net_load)
            /\ le(current_net_load, Zero) =>
                  /\ last.op = "discharge"
                  /\ le(sim.energy_movement[sim.hour], Zero)
                  /\ le(grid, Zero) /\ ge(grid, current_net_load)

\* C22 witness: a deficit hour in which a lossy battery delivered part of
\* the deficit and the grid the rest.
C22_Witness ==
    /\ BaselineHourDone /\ last.op = "discharge"
    /\ lt(pre.discharging_efficiency, One)
    /\ lt(sim.energy_movement[sim.hour], Zero)
    /\ lt(sim.grid_power[sim.hour], Zero)
    /\ gt(sim.grid_power[sim.hour], sim.net_load[sim.hour])

=============================================================================
